---------------------------- MODULE Spec2Model ----------------------------
(***************************************************************************)
(* Weather8: the WeatherAPI client (weather_client.py) and the Flask       *)
(* request handlers with their in-memory TTL cache (weather_app_group8/    *)
(* app.py).                                                                *)
(*                                                                         *)
(* Strings the code inspects character by character (city names) are       *)
(* sequences of one-character strings; other strings are TLA+ strings and  *)
(* f-strings are tuples of their parts.  JSON values are tagged records    *)
(* [t |-> "obj" | "str" | "num" | "list" | "null", v |-> ...].  Time is    *)
(* counted in minutes.                                                     *)
(***************************************************************************)
EXTENDS Integers, Sequences, FiniteSets, TLC

VARIABLES
    env,             \* os.environ as read by WeatherClient.__init__
    weather_client,  \* app.weather_client: the client, or None when construction raised
    call,            \* the last direct call of a WeatherClient method and its outcome
    cache,           \* app.cache: the entries (key, data, timestamp) of the dict
    now,             \* datetime.now(), in minutes
    handler,         \* per request thread: where it is in its handler, and its locals
    api              \* the last call of a cache function or endpoint and what it returned

vars == <<env, weather_client, call, cache, now, handler, api>>

-----------------------------------------------------------------------------
(* Bounds *)

\* The clock runs from 0 to MaxTime minutes, in steps of ClockStep minutes.
MaxTime == 15

ClockStep == 5

\* get_forecast is called with days in -MaxDays .. MaxDays.
MaxDays == 11

-----------------------------------------------------------------------------
(* JSON values *)

Obj(f) == [t |-> "obj", v |-> f]

Str(s) == [t |-> "str", v |-> s]

Num(n) == [t |-> "num", v |-> n]

List(s) == [t |-> "list", v |-> s]

None == [t |-> "null"]

\* The Python values True and False.
Bool(b) == [t |-> "bool", v |-> b]

-----------------------------------------------------------------------------
(* Exceptions *)

\* The classes each exception class derives from, itself included.
Ancestors(cls) ==
    CASE cls = "WeatherAPIError"   -> {"WeatherAPIError", "Exception"}
      [] cls = "NetworkError"      -> {"NetworkError", "WeatherAPIError", "Exception"}
      [] cls = "APIKeyError"       -> {"APIKeyError", "WeatherAPIError", "Exception"}
      [] cls = "CityNotFoundError" -> {"CityNotFoundError", "WeatherAPIError", "Exception"}
      [] cls = "RequestException"  -> {"RequestException", "Exception"}
      [] cls = "Timeout"           -> {"Timeout", "RequestException", "Exception"}
      [] cls = "ConnectionError"   -> {"ConnectionError", "RequestException", "Exception"}
      [] cls = "ConnectTimeout"    -> {"ConnectTimeout", "ConnectionError", "Timeout",
                                       "RequestException", "Exception"}
      [] cls = "RequestsJSONDecodeError"
                                   -> {"RequestsJSONDecodeError", "RequestException",
                                       "ValueError", "Exception"}
      [] cls = "JSONDecodeError"   -> {"JSONDecodeError", "ValueError", "Exception"}
      [] cls = "ValueError"        -> {"ValueError", "Exception"}
      [] cls = "AttributeError"    -> {"AttributeError", "Exception"}
      [] OTHER                     -> {"Exception"}

IsInstance(cls, base) == base \in Ancestors(cls)

Raise(cls, msg) == [kind |-> "raise", exc |-> cls, msg |-> msg]

Return(data) == [kind |-> "return", data |-> data]

-----------------------------------------------------------------------------
(* What session.get and response.json() can do *)

NotFoundMessage == "No matching location found."

ErrorBody(message) == Obj([error |-> Obj([code |-> Num(1006), message |-> Str(message)])])

LagosPayload ==
    Obj([location |-> Obj([name |-> Str("Lagos"), country |-> Str("Nigeria"),
                           region |-> Str("Lagos")]),
         current  |-> Obj([temp_c |-> Num(28), condition |-> Obj([text |-> Str("Sunny")]),
                           humidity |-> Num(65)]),
         forecast |-> Obj([forecastday |->
                             List(<<Obj([date |-> Str("2024-01-01"),
                                         day |-> Obj([maxtemp_c |-> Num(30),
                                                      mintemp_c |-> Num(22)])])>>)])])

Payloads ==
    { LagosPayload,
      Obj(<<>>),
      Obj([location |-> Str("Lagos"), current |-> Obj([condition |-> Str("Sunny")])]),
      List(<<>>) }

\* response.json(): the parsed value, or the exception class it raises.
Bodies ==
    {[parse |-> "ok", json |-> p] : p \in Payloads}
    \cup {[parse |-> "ok", json |-> ErrorBody(m)] :
             m \in {NotFoundMessage, "Parameter q is missing.", "API key is invalid."}}
    \cup {[parse |-> e, json |-> None] : e \in {"JSONDecodeError", "RequestsJSONDecodeError"}}

StatusCodes == {200, 400, 401, 403, 404, 429, 500}

TransportExceptions ==
    {"Timeout", "ConnectionError", "ConnectTimeout", "RequestException", "Exception"}

\* Everything a call of self.session.get(url, params=params) can end in.
Transports ==
    {[kind |-> "response", status_code |-> s, body |-> b] : s \in StatusCodes, b \in Bodies}
    \cup {Raise(e, "detail") : e \in TransportExceptions}

-----------------------------------------------------------------------------
(* City names *)

UpperCase == <<"A", "G", "L", "O", "S">>

LowerCase == <<"a", "g", "l", "o", "s">>

Whitespace == {" ", "\t", "\n"}

\* str.lower() on one character.
LowerChar(c) ==
    IF \E i \in DOMAIN UpperCase : UpperCase[i] = c
    THEN LowerCase[CHOOSE i \in DOMAIN UpperCase : UpperCase[i] = c]
    ELSE c

\* str.lower()
Lower(s) == [i \in DOMAIN s |-> LowerChar(s[i])]

RECURSIVE LStrip(_)
LStrip(s) == IF s # <<>> /\ Head(s) \in Whitespace THEN LStrip(Tail(s)) ELSE s

RECURSIVE RStrip(_)
RStrip(s) ==
    IF s # <<>> /\ s[Len(s)] \in Whitespace THEN RStrip(SubSeq(s, 1, Len(s) - 1)) ELSE s

\* str.strip()
Strip(s) == RStrip(LStrip(s))

Lagos == <<"L", "a", "g", "o", "s">>

CityInputs ==
    { <<>>,
      <<" ">>,
      Lagos,
      <<"l", "a", "g", "o", "s">>,
      <<"L", "A", "G", "O", "S">>,
      <<" ">> \o Lagos \o <<"\n">>,
      <<"O", "s", "l", "o">>,
      <<"L", "a", " ", "g", "o", "s">> }

-----------------------------------------------------------------------------
(* weather_client.py: WeatherClient *)

Falsy(v) == v = None \/ v = Str("")

EnvValues(good) == {None, Str(""), Str(good)}

Envs ==
    {[WEATHER_API_KEY |-> k, WEATHER_API_BASE_URL |-> b] :
        k \in EnvValues("test_api_key"), b \in EnvValues("http://test.api.com/v1")}

SessionTimeout == 10

\* WeatherClient_init checking the key only, and building a client around
\* whatever base URL the environment holds.
WeatherClient_init_KeyOnly(e) ==
    IF Falsy(e.WEATHER_API_KEY)
    THEN Raise("APIKeyError", "Weather API key not found in environment variables")
    ELSE Return([api_key |-> e.WEATHER_API_KEY.v,
                 base_url |-> IF Falsy(e.WEATHER_API_BASE_URL) THEN ""
                              ELSE e.WEATHER_API_BASE_URL.v,
                 session_timeout |-> SessionTimeout])

\* WeatherClient.__init__: the constructed object, or the exception raised.
WeatherClient_init(e) ==
    IF Falsy(e.WEATHER_API_KEY)
    THEN Raise("APIKeyError", "Weather API key not found in environment variables")
    ELSE IF Falsy(e.WEATHER_API_BASE_URL)
    THEN Raise("APIKeyError", "Weather API base URL not found in environment variables")
    ELSE Return([api_key |-> e.WEATHER_API_KEY.v,
                 base_url |-> e.WEATHER_API_BASE_URL.v,
                 session_timeout |-> SessionTimeout])

\* The request get_current_weather hands to self.session.get.
CurrentRequest(self, city) ==
    [url    |-> <<self.base_url, "/current.json">>,
     params |-> [key |-> self.api_key, q |-> city, aqi |-> "no"],
     kwargs |-> {"params"}]

\* ValidDays clamping to the nearest end of the range.
ValidDays_Clamp(days) == IF days < 1 THEN 1 ELSE IF days > 10 THEN 10 ELSE days

\* The days parameter after get_forecast's validation.
ValidDays(days) == IF ~(1 <= days /\ days <= 10) THEN 5 ELSE days

\* The request get_forecast hands to self.session.get.
ForecastRequest(self, city, days) ==
    [url    |-> <<self.base_url, "/forecast.json">>,
     params |-> [key |-> self.api_key, q |-> city, days |-> ValidDays(days),
                 aqi |-> "no", alerts |-> "no"],
     kwargs |-> {"params"}]

\* A step of a try body: what it ends in, and whether response.json() was called.
Ended(outcome, json_called) == [outcome |-> outcome, json_called |-> json_called]

\* ParseJSON without its except ValueError clause.
ParseJSON_NoExcept(body) ==
    IF body.parse = "ok" THEN Return(body.json) ELSE Raise(body.parse, "json")

\* The inner try of both methods: data = response.json(), except ValueError.
ParseJSON(body) ==
    IF body.parse = "ok"
    THEN Return(body.json)
    ELSE IF IsInstance(body.parse, "ValueError")
    THEN Raise("WeatherAPIError", <<"Invalid JSON response: ", body.parse>>)
    ELSE Raise(body.parse, "json")

\* CurrentTry reading the provider's error message on a 400, as a client that
\* tells a missing city from another bad request would.
CurrentTry_ReadMessage(city, net) ==
    IF net.kind = "raise" THEN Ended(net, FALSE)
    ELSE IF net.status_code = 400
    THEN IF net.body.parse = "ok" /\ net.body.json = ErrorBody(NotFoundMessage)
         THEN Ended(Raise("CityNotFoundError", <<"City '", city, "' not found">>), TRUE)
         ELSE Ended(Raise("WeatherAPIError", <<"API returned status code: ", 400>>), TRUE)
    ELSE IF net.status_code = 401
    THEN Ended(Raise("APIKeyError", "Invalid API key"), FALSE)
    ELSE IF net.status_code = 403
    THEN Ended(Raise("APIKeyError", "API key limit exceeded"), FALSE)
    ELSE IF net.status_code # 200
    THEN Ended(Raise("WeatherAPIError", <<"API returned status code: ", net.status_code>>),
               FALSE)
    ELSE Ended(ParseJSON(net.body), TRUE)

\* CurrentTry with 429 taken for a key over its limit.
CurrentTry_RateLimitAsKey(city, net) ==
    IF net.kind = "raise" THEN Ended(net, FALSE)
    ELSE IF net.status_code = 400
    THEN Ended(Raise("CityNotFoundError", <<"City '", city, "' not found">>), FALSE)
    ELSE IF net.status_code = 401
    THEN Ended(Raise("APIKeyError", "Invalid API key"), FALSE)
    ELSE IF net.status_code \in {403, 429}
    THEN Ended(Raise("APIKeyError", "API key limit exceeded"), FALSE)
    ELSE IF net.status_code # 200
    THEN Ended(Raise("WeatherAPIError", <<"API returned status code: ", net.status_code>>),
               FALSE)
    ELSE Ended(ParseJSON(net.body), TRUE)

\* The body of get_current_weather's try, for what session.get did (net).
CurrentTry(city, net) ==
    IF net.kind = "raise" THEN Ended(net, FALSE)
    ELSE IF net.status_code = 400
    THEN Ended(Raise("CityNotFoundError", <<"City '", city, "' not found">>), FALSE)
    ELSE IF net.status_code = 401
    THEN Ended(Raise("APIKeyError", "Invalid API key"), FALSE)
    ELSE IF net.status_code = 403
    THEN Ended(Raise("APIKeyError", "API key limit exceeded"), FALSE)
    ELSE IF net.status_code # 200
    THEN Ended(Raise("WeatherAPIError", <<"API returned status code: ", net.status_code>>),
               FALSE)
    ELSE Ended(ParseJSON(net.body), TRUE)

\* The except clauses of get_current_weather's outer try, in order.
CurrentExcept(o) ==
    IF o.kind # "raise" THEN o
    ELSE IF IsInstance(o.exc, "Timeout")
    THEN Raise("NetworkError", "Request timed out. Please check your internet connection.")
    ELSE IF IsInstance(o.exc, "ConnectionError")
    THEN Raise("NetworkError",
               "Unable to connect to weather service. Please check your internet connection.")
    ELSE IF IsInstance(o.exc, "RequestException")
    THEN Raise("NetworkError", <<"Network error occurred: ", o.msg>>)
    ELSE o

\* WeatherClient.get_current_weather(city), given what session.get does.
WeatherClient_get_current_weather(self, city, net) ==
    LET t == CurrentTry(city, net) IN
    [method      |-> "get_current_weather",
     city        |-> city,
     net         |-> net,
     request     |-> CurrentRequest(self, city),
     outcome     |-> CurrentExcept(t.outcome),
     json_called |-> t.json_called]

\* ForecastTry parsing the body before it looks at the status code.
ForecastTry_ParseFirst(city, net) ==
    IF net.kind = "raise" THEN Ended(net, FALSE)
    ELSE IF ParseJSON(net.body).kind = "raise" THEN Ended(ParseJSON(net.body), TRUE)
    ELSE IF net.status_code = 400
    THEN Ended(Raise("CityNotFoundError", <<"City '", city, "' not found">>), TRUE)
    ELSE IF net.status_code = 401
    THEN Ended(Raise("APIKeyError", "Invalid API key"), TRUE)
    ELSE IF net.status_code = 403
    THEN Ended(Raise("APIKeyError", "API key limit exceeded"), TRUE)
    ELSE IF net.status_code # 200
    THEN Ended(Raise("WeatherAPIError", <<"API returned status code: ", net.status_code>>),
               TRUE)
    ELSE Ended(ParseJSON(net.body), TRUE)

\* The body of get_forecast's try, for what session.get did (net).
ForecastTry(city, net) ==
    IF net.kind = "raise" THEN Ended(net, FALSE)
    ELSE IF net.status_code = 400
    THEN Ended(Raise("CityNotFoundError", <<"City '", city, "' not found">>), FALSE)
    ELSE IF net.status_code = 401
    THEN Ended(Raise("APIKeyError", "Invalid API key"), FALSE)
    ELSE IF net.status_code = 403
    THEN Ended(Raise("APIKeyError", "API key limit exceeded"), FALSE)
    ELSE IF net.status_code # 200
    THEN Ended(Raise("WeatherAPIError", <<"API returned status code: ", net.status_code>>),
               FALSE)
    ELSE Ended(ParseJSON(net.body), TRUE)

\* The except clauses of get_forecast's outer try, in order.
ForecastExcept(o) ==
    IF o.kind # "raise" THEN o
    ELSE IF IsInstance(o.exc, "Timeout")
    THEN Raise("NetworkError", "Request timed out. Please check your internet connection.")
    ELSE IF IsInstance(o.exc, "ConnectionError")
    THEN Raise("NetworkError",
               "Unable to connect to weather service. Please check your internet connection.")
    ELSE IF IsInstance(o.exc, "RequestException")
    THEN Raise("NetworkError", <<"Network error occurred: ", o.msg>>)
    ELSE o

\* WeatherClient.get_forecast(city, days), given what session.get does.
WeatherClient_get_forecast(self, city, days, net) ==
    LET t == ForecastTry(city, net) IN
    [method      |-> "get_forecast",
     city        |-> city,
     days        |-> days,
     net         |-> net,
     request     |-> ForecastRequest(self, city, days),
     outcome     |-> ForecastExcept(t.outcome),
     json_called |-> t.json_called]

-----------------------------------------------------------------------------
(* weather_app_group8/app.py: the TTL cache *)

CACHE_DURATION == 10

\* is_cache_valid with the bound of the TTL included.
is_cache_valid_Inclusive(timestamp) == now - timestamp <= CACHE_DURATION

\* is_cache_valid(timestamp)
is_cache_valid(timestamp) == now - timestamp < CACHE_DURATION

\* cache_key in cache
InCache(c, cache_key) == \E e \in c : e.key = cache_key

\* cache[cache_key]
CacheItem(c, cache_key) == CHOOSE e \in c : e.key = cache_key

\* get_cached_data(cache_key): the data, or None.
get_cached_data(cache_key) ==
    IF InCache(cache, cache_key) /\ is_cache_valid(CacheItem(cache, cache_key).timestamp)
    THEN CacheItem(cache, cache_key).data
    ELSE None

\* set_cache_data replacing the data of an item but not its timestamp.
set_cache_data_KeepTimestamp(cache_key, data) ==
    {e \in cache : e.key # cache_key}
    \cup {[key |-> cache_key, data |-> data,
           timestamp |-> IF InCache(cache, cache_key)
                         THEN CacheItem(cache, cache_key).timestamp ELSE now]}

\* set_cache_data(cache_key, data): the dict after cache[cache_key] = (data, now).
set_cache_data(cache_key, data) ==
    {e \in cache : e.key # cache_key}
    \cup {[key |-> cache_key, data |-> data, timestamp |-> now]}

\* The body of cache_status: one cache_info item per item of the dict.
cache_info ==
    {[key         |-> e.key,
      timestamp   |-> e.timestamp,
      valid       |-> is_cache_valid(e.timestamp),
      age_minutes |-> now - e.timestamp] : e \in cache}

\* The JSON cache_status returns.
cache_status ==
    [cache_entries          |-> Cardinality(cache),
     cache_details          |-> cache_info,
     cache_duration_minutes |-> CACHE_DURATION]

-----------------------------------------------------------------------------
(* weather_app_group8/app.py: the request handlers *)

\* dict.get(key, default) on a JSON object.
Get(d, key, default) == IF key \in DOMAIN d.v THEN d.v[key] ELSE default

\* Whether x.get(...) can be called at all: only a dict has the method.
HasGet(x) == x.t = "obj"

\* Python truthiness of a JSON value or of None.
Truthy(x) ==
    CASE x.t = "null" -> FALSE
      [] x.t = "num"  -> x.v # 0
      [] x.t = "str"  -> x.v # ""
      [] x.t = "list" -> x.v # <<>>
      [] x.t = "obj"  -> DOMAIN x.v # {}
      [] x.t = "bool" -> x.v
      [] OTHER        -> TRUE

\* current_key without city.lower().
current_key_NoLower(city) == <<"current_", city>>

current_key(city) == <<"current_", Lower(city)>>

forecast_key(city) == <<"forecast_", Lower(city)>>

\* jsonify(...) with its status code.
Response(status, body) == [status |-> status, body |-> body]

\* Lines 94-117: the result dict built from the client's weather_data, or the
\* exception raised on the way.
CurrentResult(weather_data) ==
    IF ~HasGet(weather_data) THEN Raise("AttributeError", "get")
    ELSE
    LET current  == Get(weather_data, "current", Obj(<<>>))
        location == Get(weather_data, "location", Obj(<<>>))
    IN
    IF ~HasGet(location) \/ ~HasGet(current) THEN Raise("AttributeError", "get")
    ELSE IF ~HasGet(Get(current, "condition", Obj(<<>>))) THEN Raise("AttributeError", "get")
    ELSE
    Return(Obj(
      [location |-> Obj(
          [name       |-> Get(location, "name", Str("Unknown")),
           country    |-> Get(location, "country", Str("")),
           region     |-> Get(location, "region", Str("")),
           local_time |-> Get(location, "localtime", Str(""))]),
       current |-> Obj(
          [temperature_c |-> Get(current, "temp_c", Num(0)),
           temperature_f |-> Get(current, "temp_f", Num(0)),
           condition     |-> Get(Get(current, "condition", Obj(<<>>)), "text", Str("Unknown")),
           icon          |-> Get(Get(current, "condition", Obj(<<>>)), "icon", Str("")),
           humidity      |-> Get(current, "humidity", Num(0)),
           wind_kph      |-> Get(current, "wind_kph", Num(0)),
           wind_dir      |-> Get(current, "wind_dir", Str("")),
           feels_like_c  |-> Get(current, "feelslike_c", Num(0)),
           uv            |-> Get(current, "uv", Num(0)),
           visibility_km |-> Get(current, "vis_km", Num(0))]),
       last_updated |-> Get(current, "last_updated", Str(""))]))

\* Lines 209-221: one entry of result['forecast'].
ForecastEntry(day_data) ==
    LET day == Get(day_data, "day", Obj(<<>>)) IN
    Obj([date           |-> Get(day_data, "date", Str("")),
         max_temp_c     |-> Get(day, "maxtemp_c", Num(0)),
         min_temp_c     |-> Get(day, "mintemp_c", Num(0)),
         max_temp_f     |-> Get(day, "maxtemp_f", Num(0)),
         min_temp_f     |-> Get(day, "mintemp_f", Num(0)),
         condition      |-> Get(Get(day, "condition", Obj(<<>>)), "text", Str("Unknown")),
         icon           |-> Get(Get(day, "condition", Obj(<<>>)), "icon", Str("")),
         chance_of_rain |-> Get(day, "daily_chance_of_rain", Num(0)),
         avg_humidity   |-> Get(day, "avghumidity", Num(0))])

\* Whether the loop body of lines 209-221 runs through for day_data.
ForecastEntryOK(day_data) ==
    /\ HasGet(day_data)
    /\ HasGet(Get(day_data, "day", Obj(<<>>)))
    /\ HasGet(Get(Get(day_data, "day", Obj(<<>>)), "condition", Obj(<<>>)))

\* Lines 196-221: the result dict built from the client's forecast_data, or the
\* exception raised on the way.
ForecastResult(forecast_data) ==
    IF ~HasGet(forecast_data) THEN Raise("AttributeError", "get")
    ELSE
    LET location == Get(forecast_data, "location", Obj(<<>>))
        forecast == Get(forecast_data, "forecast", Obj(<<>>))
    IN
    IF ~HasGet(forecast) \/ ~HasGet(location) THEN Raise("AttributeError", "get")
    ELSE
    LET forecast_days == Get(forecast, "forecastday", List(<<>>)) IN
    IF forecast_days.t \notin {"list", "obj", "str"} THEN Raise("TypeError", "iter")
    ELSE IF forecast_days.t # "list" /\ Truthy(forecast_days)
    THEN Raise("AttributeError", "get")   \* iterates over strings
    ELSE IF \E i \in DOMAIN forecast_days.v : ~ForecastEntryOK(forecast_days.v[i])
    THEN Raise("AttributeError", "get")
    ELSE
    Return(Obj(
      [location |-> Obj(
          [name    |-> Get(location, "name", Str("Unknown")),
           country |-> Get(location, "country", Str("")),
           region  |-> Get(location, "region", Str(""))]),
       forecast |-> List([i \in DOMAIN forecast_days.v |->
                            ForecastEntry(forecast_days.v[i])])]))

\* request.args.get('city', '')
ArgCity(args) == IF args.has_city THEN args.city ELSE <<>>

\* The except clauses of both handlers, in order, for the exception e the try
\* body raised.
ErrorResponse(city, e) ==
    IF IsInstance(e.exc, "CityNotFoundError")
    THEN Response(404, [success |-> FALSE,
                        error |-> <<"City '", city,
                                    "' not found. Please check the spelling and try again.">>])
    ELSE IF IsInstance(e.exc, "APIKeyError")
    THEN Response(401, [success |-> FALSE,
                        error |-> <<"Weather service authentication error. Please try again later.">>])
    ELSE IF IsInstance(e.exc, "NetworkError")
    THEN Response(503, [success |-> FALSE,
                        error |-> <<"Unable to connect to weather service. Please check your internet connection.">>])
    ELSE IF IsInstance(e.exc, "WeatherAPIError")
    THEN Response(500, [success |-> FALSE, error |-> <<"Weather service error: ", e.msg>>])
    ELSE Response(500, [success |-> FALSE,
                        error |-> <<"An unexpected error occurred. Please try again.">>])

CityRequired == Response(400, [success |-> FALSE, error |-> <<"City parameter is required">>])

NotAvailable ==
    Response(500, [success |-> FALSE, error |-> <<"Weather service is not available">>])

Success(data, cached) == Response(200, [success |-> TRUE, data |-> data, cached |-> cached])

Idle == [pc |-> "idle"]

\* A handler suspended in its call of the client, with its locals.
Fetching(endpoint, args, city, cache_key) ==
    [pc |-> "fetch", endpoint |-> endpoint, args |-> args, city |-> city,
     cache_key |-> cache_key]

\* What a handler that has returned leaves in api.
Served(endpoint, args, response) == [op |-> endpoint, args |-> args, response |-> response]

\* What a handler that answers from the cache leaves in api.  For the reader of
\* a trace it also notes (after) the arguments of the request served just before,
\* when that request fetched and stored a result of the same kind.
ServedFromCache(endpoint, args, data) ==
    [op |-> endpoint, args |-> args, response |-> Success(data, TRUE),
     after |-> IF api.op = endpoint /\ api.response.status = 200
                  /\ ~api.response.body.cached
               THEN api.args ELSE None]

\* get_current_weather, lines 64-87: up to the cache lookup; on a miss the
\* handler goes on to call the client.
get_current_weather_lookup(r, args) ==
    /\ handler[r].pc = "idle"
    /\ LET city == Strip(ArgCity(args)) IN
       IF city = <<>>
       THEN /\ api' = Served("current", args, CityRequired)
            /\ handler' = handler
       ELSE IF weather_client = None
       THEN /\ api' = Served("current", args, NotAvailable)
            /\ handler' = handler
       ELSE IF Truthy(get_cached_data(current_key(city)))
       THEN /\ api' = ServedFromCache("current", args, get_cached_data(current_key(city)))
            /\ handler' = handler
       ELSE /\ api' = [op |-> "lookup"]
            /\ handler' = [handler EXCEPT
                              ![r] = Fetching("current", args, city, current_key(city))]
    /\ UNCHANGED <<env, weather_client, call, cache, now>>

\* get_current_weather_fetch keeping the data another request stored for the
\* key meanwhile and refreshing only its timestamp.
get_current_weather_fetch_KeepData(r, net) ==
    /\ handler[r].pc = "fetch"
    /\ handler[r].endpoint = "current"
    /\ LET h == handler[r]
           c == WeatherClient_get_current_weather(weather_client, h.city, net)
           t == IF c.outcome.kind = "return" THEN CurrentResult(c.outcome.data)
                ELSE c.outcome
       IN
       /\ cache' = IF t.kind = "return"
                   THEN set_cache_data(h.cache_key,
                                       IF InCache(cache, h.cache_key)
                                       THEN CacheItem(cache, h.cache_key).data ELSE t.data)
                   ELSE cache
       /\ api' = Served("current", h.args,
                        IF t.kind = "return" THEN Success(t.data, FALSE)
                        ELSE ErrorResponse(h.city, t))
    /\ handler' = [handler EXCEPT ![r] = Idle]
    /\ UNCHANGED <<env, weather_client, call, now>>

\* get_current_weather, lines 89-157: the client call, the result, the cache
\* write and the response, for what session.get does (net).
get_current_weather_fetch(r, net) ==
    /\ handler[r].pc = "fetch"
    /\ handler[r].endpoint = "current"
    /\ LET h == handler[r]
           c == WeatherClient_get_current_weather(weather_client, h.city, net)
           t == IF c.outcome.kind = "return" THEN CurrentResult(c.outcome.data)
                ELSE c.outcome
       IN
       /\ cache' = IF t.kind = "return" THEN set_cache_data(h.cache_key, t.data) ELSE cache
       /\ api' = Served("current", h.args,
                        IF t.kind = "return" THEN Success(t.data, FALSE)
                        ELSE ErrorResponse(h.city, t))
    /\ handler' = [handler EXCEPT ![r] = Idle]
    /\ UNCHANGED <<env, weather_client, call, now>>

\* get_forecast_lookup going on to the client whatever the cache holds.
get_forecast_lookup_NoCache(r, args) ==
    /\ handler[r].pc = "idle"
    /\ LET city == Strip(ArgCity(args)) IN
       IF city = <<>>
       THEN /\ api' = Served("forecast", args, CityRequired)
            /\ handler' = handler
       ELSE IF weather_client = None
       THEN /\ api' = Served("forecast", args, NotAvailable)
            /\ handler' = handler
       ELSE /\ api' = [op |-> "lookup"]
            /\ handler' = [handler EXCEPT
                              ![r] = Fetching("forecast", args, city, forecast_key(city))]
    /\ UNCHANGED <<env, weather_client, call, cache, now>>

\* get_forecast, lines 166-189: up to the cache lookup.
get_forecast_lookup(r, args) ==
    /\ handler[r].pc = "idle"
    /\ LET city == Strip(ArgCity(args)) IN
       IF city = <<>>
       THEN /\ api' = Served("forecast", args, CityRequired)
            /\ handler' = handler
       ELSE IF weather_client = None
       THEN /\ api' = Served("forecast", args, NotAvailable)
            /\ handler' = handler
       ELSE IF Truthy(get_cached_data(forecast_key(city)))
       THEN /\ api' = ServedFromCache("forecast", args, get_cached_data(forecast_key(city)))
            /\ handler' = handler
       ELSE /\ api' = [op |-> "lookup"]
            /\ handler' = [handler EXCEPT
                              ![r] = Fetching("forecast", args, city, forecast_key(city))]
    /\ UNCHANGED <<env, weather_client, call, cache, now>>

\* get_forecast_fetch storing the body of its response whatever the outcome.
get_forecast_fetch_CacheErrors(r, net) ==
    /\ handler[r].pc = "fetch"
    /\ handler[r].endpoint = "forecast"
    /\ LET h == handler[r]
           c == WeatherClient_get_forecast(weather_client, h.city, 5, net)
           t == IF c.outcome.kind = "return" THEN ForecastResult(c.outcome.data)
                ELSE c.outcome
       IN
       /\ cache' = IF t.kind = "return" THEN set_cache_data(h.cache_key, t.data)
                   ELSE set_cache_data(h.cache_key, None)
       /\ api' = Served("forecast", h.args,
                        IF t.kind = "return" THEN Success(t.data, FALSE)
                        ELSE ErrorResponse(h.city, t))
    /\ handler' = [handler EXCEPT ![r] = Idle]
    /\ UNCHANGED <<env, weather_client, call, now>>

\* get_forecast, lines 191-261: the client call with days=5, the result, the
\* cache write and the response.
get_forecast_fetch(r, net) ==
    /\ handler[r].pc = "fetch"
    /\ handler[r].endpoint = "forecast"
    /\ LET h == handler[r]
           c == WeatherClient_get_forecast(weather_client, h.city, 5, net)
           t == IF c.outcome.kind = "return" THEN ForecastResult(c.outcome.data)
                ELSE c.outcome
       IN
       /\ cache' = IF t.kind = "return" THEN set_cache_data(h.cache_key, t.data) ELSE cache
       /\ api' = Served("forecast", h.args,
                        IF t.kind = "return" THEN Success(t.data, FALSE)
                        ELSE ErrorResponse(h.city, t))
    /\ handler' = [handler EXCEPT ![r] = Idle]
    /\ UNCHANGED <<env, weather_client, call, now>>

\* GET /api/cache/status
CacheStatus ==
    /\ api' = [op |-> "status", response |-> Response(200, cache_status)]
    /\ UNCHANGED <<env, weather_client, call, cache, now, handler>>

\* Time passes.
Tick ==
    /\ now + ClockStep <= MaxTime
    /\ now' = now + ClockStep
    /\ api' = [op |-> "tick"]
    /\ UNCHANGED <<env, weather_client, call, cache, handler>>

-----------------------------------------------------------------------------
(* Direct calls *)

\* A caller calls client.get_current_weather(city).  The client keeps nothing
\* from one call to the next, so a behaviour makes one call.
ClientGetCurrentWeather(city, net) ==
    /\ weather_client # None
    /\ call.method = "none"
    /\ call' = WeatherClient_get_current_weather(weather_client, city, net)
    /\ UNCHANGED <<env, weather_client, cache, now, handler, api>>

\* A caller calls client.get_forecast(city, days).
ClientGetForecast(city, days, net) ==
    /\ weather_client # None
    /\ call.method = "none"
    /\ call' = WeatherClient_get_forecast(weather_client, city, days, net)
    /\ UNCHANGED <<env, weather_client, cache, now, handler, api>>

\* GetCachedData deleting the item it finds expired.
GetCachedData_Purge(cache_key) ==
    /\ api' = [op |-> "get", key |-> cache_key, result |-> get_cached_data(cache_key)]
    /\ cache' = {e \in cache : e.key # cache_key \/ is_cache_valid(e.timestamp)}
    /\ UNCHANGED <<env, weather_client, call, now, handler>>

\* A call of get_cached_data(cache_key).
GetCachedData(cache_key) ==
    /\ api' = [op |-> "get", key |-> cache_key, result |-> get_cached_data(cache_key)]
    /\ UNCHANGED <<env, weather_client, call, cache, now, handler>>

\* A call of set_cache_data(cache_key, data); the caller notes the item the dict
\* held for the key before the call.
SetCacheData(cache_key, data) ==
    /\ cache' = set_cache_data(cache_key, data)
    /\ api' = [op |-> "set", key |-> cache_key, data |-> data,
               replaced |-> IF InCache(cache, cache_key)
                            THEN CacheItem(cache, cache_key) ELSE None]
    /\ UNCHANGED <<env, weather_client, call, now, handler>>

-----------------------------------------------------------------------------
(* Inputs *)

Threads == {"t1", "t2"}

\* The city parameter of the requests the handlers are given.
HandlerCities ==
    { <<" ">>,
      Lagos,
      <<"l", "a", "g", "o", "s">>,
      <<" ">> \o <<"L", "A", "G", "O", "S">> \o <<"\n">> }

RequestArgs ==
    {[has_city |-> FALSE, city |-> <<>>]}
    \cup {[has_city |-> TRUE, city |-> c] : c \in HandlerCities}

\* What session.get does in the calls the handlers make.
HandlerTransports ==
    {[kind |-> "response", status_code |-> 200, body |-> b] :
        b \in {[parse |-> "ok", json |-> p] : p \in {LagosPayload, Obj(<<>>), List(<<>>)}}
              \cup {[parse |-> "RequestsJSONDecodeError", json |-> None]}}
    \cup {[kind |-> "response", status_code |-> s,
           body |-> [parse |-> "ok", json |-> ErrorBody(NotFoundMessage)]] :
             s \in {400, 401, 429}}
    \cup {Raise(e, "detail") : e \in {"Timeout", "Exception"}}

Days == (0 - MaxDays) .. MaxDays

\* The keys and values the cache functions are called with directly.
CacheKeys == {current_key(Lagos), forecast_key(Lagos), current_key(<<"O", "s", "l", "o">>)}

CacheValues == {CurrentResult(LagosPayload).data, CurrentResult(Obj(<<>>)).data}

-----------------------------------------------------------------------------
(* Specifications *)

\* app.py lines 20-30 at import: the client is built from the environment, the
\* cache is empty.
Init ==
    /\ env \in Envs
    /\ weather_client = IF WeatherClient_init(env).kind = "return"
                        THEN WeatherClient_init(env).data ELSE None
    /\ call = [method |-> "none"]
    /\ cache = {}
    /\ now = 0
    /\ handler = [r \in Threads |-> Idle]
    /\ api = [op |-> "none"]

\* The application serving requests on its threads.
Next ==
    \/ \E r \in Threads, args \in RequestArgs : get_current_weather_lookup(r, args)
    \/ \E r \in Threads, net \in HandlerTransports : get_current_weather_fetch(r, net)
    \/ \E r \in Threads, args \in RequestArgs : get_forecast_lookup(r, args)
    \/ \E r \in Threads, net \in HandlerTransports : get_forecast_fetch(r, net)
    \/ CacheStatus
    \/ Tick

Spec == Init /\ [][Next]_vars

\* The client's methods called directly.
NextClient ==
    \/ /\ call.method = "none"
       /\ \E city \in CityInputs, net \in Transports : ClientGetCurrentWeather(city, net)
    \/ /\ call.method = "none"
       /\ \E city \in CityInputs, days \in Days, net \in Transports :
             ClientGetForecast(city, days, net)

SpecClient == Init /\ [][NextClient]_vars

\* The cache functions called directly; they do not read weather_client.
InitCache == Init /\ weather_client # None

NextCache ==
    \/ \E k \in CacheKeys, v \in CacheValues : SetCacheData(k, v)
    \/ \E k \in CacheKeys : GetCachedData(k)
    \/ CacheStatus
    \/ Tick

SpecCache == InitCache /\ [][NextCache]_vars

-----------------------------------------------------------------------------
(* The client's error mapping *)

Called == call.method # "none"

Responded == Called /\ call.net.kind = "response"

\* The provider's error message, error.message of the body, names a location
\* that was not found.
HasNotFoundPhrase(body) ==
    /\ body.parse = "ok"
    /\ body.json.t = "obj"
    /\ "error" \in DOMAIN body.json.v
    /\ body.json.v.error.v.message = Str(NotFoundMessage)

RaisedExactly(cls) == call.outcome.kind = "raise" /\ call.outcome.exc = cls

\* C1 as claimed: on a 400 response both methods raise CityNotFoundError only when
\* the provider's error message contains the location-not-found phrase, and the
\* generic WeatherAPIError otherwise.
C1_NotFoundOnlyOnPhrase ==
    (Responded /\ call.net.status_code = 400) =>
        IF HasNotFoundPhrase(call.net.body)
        THEN RaisedExactly("CityNotFoundError")
        ELSE RaisedExactly("WeatherAPIError")

\* C1 as amended: on a 400 response both methods raise CityNotFoundError naming
\* the requested city whatever the body holds, and never read the body.
C1_Every400IsCityNotFound ==
    (Responded /\ call.net.status_code = 400) =>
        /\ RaisedExactly("CityNotFoundError")
        /\ call.outcome.msg = <<"City '", call.city, "' not found">>
        /\ ~call.json_called

\* A 400 whose error message is about something else, raised as CityNotFoundError.
C1_Witness ==
    /\ Responded
    /\ call.net.status_code = 400
    /\ call.net.body.parse = "ok"
    /\ call.net.body.json = ErrorBody("Parameter q is missing.")
    /\ RaisedExactly("CityNotFoundError")

\* C2: on both methods a 401 or 403 response raises APIKeyError whatever the body
\* holds, and response.json() is not called before it is raised.
C2_AuthStatusIsAPIKeyError ==
    (Responded /\ call.net.status_code \in {401, 403}) =>
        /\ RaisedExactly("APIKeyError")
        /\ ~call.json_called

\* A 403 on get_forecast whose body is not JSON at all, raised as APIKeyError.
C2_Witness ==
    /\ Responded
    /\ call.method = "get_forecast"
    /\ call.net.status_code = 403
    /\ call.net.body.parse # "ok"
    /\ RaisedExactly("APIKeyError")

\* C3: on both methods a response with status 429, or any other status outside
\* {200, 400, 401, 403}, raises WeatherAPIError itself, with the status code in its
\* message.
C3_OtherStatusIsGeneric ==
    (Responded /\ call.net.status_code \notin {200, 400, 401, 403}) =>
        /\ RaisedExactly("WeatherAPIError")
        /\ call.outcome.msg = <<"API returned status code: ", call.net.status_code>>

\* A 429 on get_current_weather raised as the generic error.
C3_Witness ==
    /\ Responded
    /\ call.method = "get_current_weather"
    /\ call.net.status_code = 429
    /\ RaisedExactly("WeatherAPIError")

\* C4 as claimed: whenever session.get raises instead of returning a response,
\* both methods raise NetworkError.
C4_TransportFailureIsNetworkError ==
    (Called /\ call.net.kind = "raise") => RaisedExactly("NetworkError")

\* C5: a 200 response whose body fails to parse raises WeatherAPIError itself, not
\* NetworkError; one whose body parses is returned unchanged.
C5_BadJSONIsGeneric ==
    (Responded /\ call.net.status_code = 200) =>
        IF call.net.body.parse = "ok"
        THEN call.outcome = Return(call.net.body.json)
        ELSE RaisedExactly("WeatherAPIError")

\* A 200 whose json() raises the requests library's JSONDecodeError, which is
\* both a ValueError and a RequestException.
C5_Witness ==
    /\ Responded
    /\ call.net.status_code = 200
    /\ call.net.body.parse = "RequestsJSONDecodeError"
    /\ RaisedExactly("WeatherAPIError")

\* C6: for days outside 1..10 get_forecast sends the request of days=5 and ends
\* as the call with days=5 does; for days in 1..10 the request carries days.
C6_DaysDefault ==
    (Called /\ call.method = "get_forecast") =>
        IF call.days < 1 \/ call.days > 10
        THEN /\ call.request.params.days = 5
             /\ call.request = WeatherClient_get_forecast(weather_client, call.city, 5,
                                                          call.net).request
             /\ call.outcome = WeatherClient_get_forecast(weather_client, call.city, 5,
                                                          call.net).outcome
        ELSE call.request.params.days = call.days

\* get_forecast called with days=11 on a provider that answers 200.
C6_Witness ==
    /\ Called
    /\ call.method = "get_forecast"
    /\ call.days = 11
    /\ call.request.params.days = 5
    /\ call.outcome.kind = "return"

-----------------------------------------------------------------------------
(* The TTL cache *)

\* The items the dict holds for a key.
Items(key) == {e \in cache : e.key = key}

Fresh(e) == now - e.timestamp < CACHE_DURATION

\* C7: get(k) returns the value stored for k unchanged while now - stored_at < ttl,
\* and None, as for a key never stored, once now - stored_at >= ttl.
C7_GetWithinTTL ==
    api.op = "get" =>
        IF \E e \in Items(api.key) : Fresh(e)
        THEN \A e \in Items(api.key) : api.result = e.data
        ELSE api.result = None

\* get(k) exactly ttl after k was stored: the item is still in the dict and the
\* answer is None.
C7_Witness ==
    /\ api.op = "get"
    /\ \E e \in Items(api.key) : now - e.timestamp = CACHE_DURATION
    /\ api.result = None

\* Two names that differ in nothing but the case of their letters.
SameUpToCase(a, b) ==
    /\ Len(a) = Len(b)
    /\ \A i \in 1 .. Len(a) :
          \/ a[i] = b[i]
          \/ \E j \in DOMAIN UpperCase : {a[i], b[i]} = {UpperCase[j], LowerCase[j]}

\* An item of the given kind stored for a name that is city up to case.
StoredFor(e, endpoint, city) ==
    /\ e.key[1] = (IF endpoint = "current" THEN "current_" ELSE "forecast_")
    /\ SameUpToCase(e.key[2], city)

\* A handler of thread r goes from its cache lookup on to call the client.
Misses(r) == handler[r].pc = "idle" /\ handler'[r].pc = "fetch"

\* A handler answers from the cache.
Hits == api'.op \in {"current", "forecast"} /\ api'.response.status = 200
        /\ api'.response.body.cached

\* A handler of thread r has fetched a result and answers with it.
Fetches(r) == handler[r].pc = "fetch" /\ handler'[r].pc = "idle"
              /\ api'.response.status = 200

\* C8: a handler that fetches a result stores it under a key that every spelling
\* of the city, in upper or lower case, resolves to: while an item stored for
\* some spelling of the city is within the TTL, a request of the same kind for
\* any spelling is answered with that item's data and does not go to the client.
C8_CaseInsensitiveKey ==
    [][\A r \in Threads :
          /\ Misses(r) =>
                ~\E e \in cache :
                    StoredFor(e, handler'[r].endpoint, handler'[r].city) /\ Fresh(e)
          /\ Hits =>
                \A e \in cache :
                    (StoredFor(e, api'.op, Strip(ArgCity(api'.args))) /\ Fresh(e))
                    => api'.response.body.data = e.data
          /\ Fetches(r) =>
                \E e \in cache' :
                    /\ StoredFor(e, handler[r].endpoint, handler[r].city)
                    /\ e.data = api'.response.body.data
                    /\ e.timestamp = now
      ]_vars

\* A request for one spelling answered from the cache right after a request for
\* another spelling of the city fetched and stored the result.
C8_Witness ==
    /\ api.op = "current"
    /\ api.response.status = 200
    /\ api.response.body.cached
    /\ api.after # None
    /\ Strip(ArgCity(api.after)) # Strip(ArgCity(api.args))
    /\ SameUpToCase(Strip(ArgCity(api.after)), Strip(ArgCity(api.args)))
    /\ \E e \in cache :
          /\ StoredFor(e, "current", Strip(ArgCity(api.args)))
          /\ e.data = api.response.body.data

\* C9: the dict holds at most one item per key, and after set(k, v) that item is
\* v with the time of this set, so that get(k) returns v.
C9_LastWriteWins ==
    /\ \A e1, e2 \in cache : e1.key = e2.key => e1 = e2
    /\ api.op = "set" =>
          /\ Items(api.key) = {[key |-> api.key, data |-> api.data, timestamp |-> now]}
          /\ get_cached_data(api.key) = api.data

\* set(k, v2) over an item that held another value and an earlier timestamp.
C9_Witness ==
    /\ api.op = "set"
    /\ api.replaced # None
    /\ api.replaced.data # api.data
    /\ api.replaced.timestamp < now
    /\ Items(api.key) = {[key |-> api.key, data |-> api.data, timestamp |-> now]}

\* What cache_status reports is every item of the dict with its timestamp and
\* whether it is within the TTL.
StatusReportsAll ==
    LET details == api.response.body.cache_details IN
    /\ api.response.body.cache_entries = Cardinality(cache)
    /\ {[key |-> d.key, timestamp |-> d.timestamp, valid |-> d.valid] : d \in details}
       = {[key |-> e.key, timestamp |-> e.timestamp, valid |-> Fresh(e)] : e \in cache}

\* C10: get and status leave every item of the dict, expired ones included, as
\* it was, and status reports every item with its validity.
C10_ReadsDoNotWrite ==
    /\ [][api'.op \in {"get", "status"} => cache' = cache]_vars
    /\ [](api.op = "status" => StatusReportsAll)

\* status reporting an expired item that is still in the dict.
C10_Witness ==
    /\ api.op = "status"
    /\ \E d \in api.response.body.cache_details : ~d.valid /\ d.key \in {e.key : e \in cache}

-----------------------------------------------------------------------------
(* Concurrent requests *)

\* data is a result the handler can build from what the client returns to it.
OwnResult(endpoint, city, data) ==
    \E net \in HandlerTransports :
       IF endpoint = "current"
       THEN LET c == WeatherClient_get_current_weather(weather_client, city, net)
            IN  /\ c.outcome.kind = "return"
                /\ CurrentResult(c.outcome.data).kind = "return"
                /\ CurrentResult(c.outcome.data).data = data
       ELSE LET c == WeatherClient_get_forecast(weather_client, city, 5, net)
            IN  /\ c.outcome.kind = "return"
                /\ ForecastResult(c.outcome.data).kind = "return"
                /\ ForecastResult(c.outcome.data).data = data

\* The item a handler of thread r writes when it answers with what it fetched.
Written(r) ==
    [key |-> handler[r].cache_key, data |-> api'.response.body.data, timestamp |-> now]

\* C11: however the requests interleave, every item of the dict is at every
\* moment the whole (data, timestamp) pair one request wrote, the data that
\* request fetched with the time of its write, and there is one item per key;
\* a request answers with what it fetched itself or with the data of an item.
C11_NoTornEntries ==
    [][/\ \A e \in cache' :
             \/ e \in cache
             \/ \E r \in Threads : Fetches(r) /\ e = Written(r)
       /\ \A e1, e2 \in cache' : e1.key = e2.key => e1 = e2
       /\ \A r \in Threads :
             Fetches(r) =>
                OwnResult(handler[r].endpoint, handler[r].city, api'.response.body.data)
       /\ Hits => \E e \in cache : e.data = api'.response.body.data /\ Fresh(e)
      ]_vars

\* Two requests missed on the same key: one has stored its result, the other is
\* still in its call of the client and will store over it.
C11_Witness ==
    \E r \in Threads :
       /\ handler[r].pc = "fetch"
       /\ api.op = handler[r].endpoint
       /\ api.response.status = 200
       /\ ~api.response.body.cached
       /\ \E e \in cache :
             /\ e.key = handler[r].cache_key
             /\ e.data = api.response.body.data
             /\ e.timestamp = now

-----------------------------------------------------------------------------
(* Construction of the client *)

\* The environment lacks the key or the base URL, or holds an empty one.
Misconfigured == Falsy(env.WEATHER_API_KEY) \/ Falsy(env.WEATHER_API_BASE_URL)

\* C12 as the specification words it: with the key or the base URL missing or
\* empty the constructor raises a ConfigurationError, an error of another
\* class than APIKeyError.
C12_RaisesConfigurationError ==
    Misconfigured =>
       /\ WeatherClient_init(env).kind = "raise"
       /\ IsInstance(WeatherClient_init(env).exc, "ConfigurationError")
       /\ ~IsInstance(WeatherClient_init(env).exc, "APIKeyError")

\* C12: with the key or the base URL missing or empty the constructor raises
\* an APIKeyError and no client exists: the application holds None, no handler
\* ever reaches its call of the client, and the two weather endpoints answer
\* 400 or 500.
C12_ConstructionFails ==
    Misconfigured =>
       /\ WeatherClient_init(env).kind = "raise"
       /\ WeatherClient_init(env).exc = "APIKeyError"
       /\ weather_client = None
       /\ call.method = "none"
       /\ \A r \in Threads : handler[r].pc = "idle"
       /\ api.op \in {"current", "forecast"} => api.response.status \in {400, 500}

\* The key is set and the base URL is empty: a forecast request for a city was
\* answered 500 for want of a client.
C12_Witness ==
    /\ ~Falsy(env.WEATHER_API_KEY)
    /\ env.WEATHER_API_BASE_URL = Str("")
    /\ weather_client = None
    /\ api.op = "forecast"
    /\ api.response.status = 500

-----------------------------------------------------------------------------
(* models.py: the domain classes and WeatherDataProcessor *)

\* Location.from_api_response.
Location_from_api_response(location_data) ==
    IF ~HasGet(location_data)
    THEN Raise("AttributeError", "object has no attribute 'get'")
    ELSE Return([name       |-> Get(location_data, "name", Str("Unknown")),
                 country    |-> Get(location_data, "country", Str("")),
                 region     |-> Get(location_data, "region", Str("")),
                 local_time |-> Get(location_data, "localtime", Str(""))])

\* CurrentWeather_from_api_response reading the condition text with no default.
CurrentWeather_from_api_response_NoUnknown(current_data) ==
    IF ~HasGet(current_data)
    THEN Raise("AttributeError", "object has no attribute 'get'")
    ELSE IF ~HasGet(Get(current_data, "condition", Obj(<<>>)))
    THEN Raise("AttributeError", "object has no attribute 'get'")
    ELSE Return(
      [temperature_c |-> Get(current_data, "temp_c", Num(0)),
       temperature_f |-> Get(current_data, "temp_f", Num(0)),
       condition     |-> Get(Get(current_data, "condition", Obj(<<>>)), "text", None),
       icon          |-> Get(Get(current_data, "condition", Obj(<<>>)), "icon", Str("")),
       humidity      |-> Get(current_data, "humidity", Num(0)),
       wind_kph      |-> Get(current_data, "wind_kph", Num(0)),
       wind_dir      |-> Get(current_data, "wind_dir", Str("")),
       feels_like_c  |-> Get(current_data, "feelslike_c", Num(0)),
       uv            |-> Get(current_data, "uv", Num(0)),
       visibility_km |-> Get(current_data, "vis_km", Num(0)),
       last_updated  |-> Get(current_data, "last_updated", Str(""))])

\* CurrentWeather.from_api_response.
CurrentWeather_from_api_response(current_data) ==
    IF ~HasGet(current_data)
    THEN Raise("AttributeError", "object has no attribute 'get'")
    ELSE IF ~HasGet(Get(current_data, "condition", Obj(<<>>)))
    THEN Raise("AttributeError", "object has no attribute 'get'")
    ELSE Return(
      [temperature_c |-> Get(current_data, "temp_c", Num(0)),
       temperature_f |-> Get(current_data, "temp_f", Num(0)),
       condition     |-> Get(Get(current_data, "condition", Obj(<<>>)), "text", Str("Unknown")),
       icon          |-> Get(Get(current_data, "condition", Obj(<<>>)), "icon", Str("")),
       humidity      |-> Get(current_data, "humidity", Num(0)),
       wind_kph      |-> Get(current_data, "wind_kph", Num(0)),
       wind_dir      |-> Get(current_data, "wind_dir", Str("")),
       feels_like_c  |-> Get(current_data, "feelslike_c", Num(0)),
       uv            |-> Get(current_data, "uv", Num(0)),
       visibility_km |-> Get(current_data, "vis_km", Num(0)),
       last_updated  |-> Get(current_data, "last_updated", Str(""))])

\* WeatherData.from_api_response: the arguments of cls(...) in their order.
WeatherData_from_api_response(api_data) ==
    IF ~HasGet(api_data)
    THEN Raise("AttributeError", "object has no attribute 'get'")
    ELSE
    LET location == Location_from_api_response(Get(api_data, "location", Obj(<<>>)))
        current  == CurrentWeather_from_api_response(Get(api_data, "current", Obj(<<>>)))
    IN
    IF location.kind = "raise" THEN location
    ELSE IF current.kind = "raise" THEN current
    ELSE Return([location     |-> location.data,
                 current      |-> current.data,
                 last_updated |-> Get(Get(api_data, "current", Obj(<<>>)),
                                      "last_updated", Str(""))])

\* WeatherDataProcessor.process_current_weather.
process_current_weather(raw_api_data) ==
    LET r == WeatherData_from_api_response(raw_api_data) IN
    IF r.kind = "raise"
    THEN Raise("ValueError", <<"Failed to process weather data: ", r.msg>>)
    ELSE r

\* Whether object x has attribute a: None has neither fields nor a length.
HasAttr(x, a) == a \in DOMAIN x

\* WeatherDataProcessor.validate_weather_data: `a and b and c` is the first
\* falsy operand, or the last operand; AttributeError and TypeError give False.
validate_weather_data(weather_data) ==
    IF ~HasAttr(weather_data.location, "name") THEN Bool(FALSE)
    ELSE IF ~Truthy(weather_data.location.name) THEN weather_data.location.name
    ELSE IF ~HasAttr(weather_data.current, "temperature_c") THEN Bool(FALSE)
    ELSE IF weather_data.current.temperature_c = None THEN Bool(FALSE)
    ELSE weather_data.current.condition

\* WeatherDataProcessor.validate_forecast_data.
validate_forecast_data(forecast_data) ==
    IF ~HasAttr(forecast_data.location, "name") THEN Bool(FALSE)
    ELSE IF ~Truthy(forecast_data.location.name) THEN forecast_data.location.name
    ELSE IF forecast_data.forecast.t # "list" THEN Bool(FALSE)
    ELSE LET days == forecast_data.forecast.v IN
    IF ~(Len(days) > 0) THEN Bool(FALSE)
    ELSE IF \E i \in 1..Len(days) : ~HasAttr(days[i], "date") THEN Bool(FALSE)
    ELSE Bool(\A i \in 1..Len(days) : Truthy(days[i].date))

\* process_current_weather(raw_api_data) is called.
ProcessCurrentWeather(raw_api_data) ==
    /\ api' = [op |-> "process_current_weather", raw |-> raw_api_data,
               outcome |-> process_current_weather(raw_api_data)]
    /\ UNCHANGED <<env, weather_client, call, cache, now, handler>>

\* validate_weather_data(weather_data) is called.
ValidateWeatherData(weather_data) ==
    /\ api' = [op |-> "validate_weather_data", arg |-> weather_data,
               result |-> validate_weather_data(weather_data)]
    /\ UNCHANGED <<env, weather_client, call, cache, now, handler>>

\* validate_forecast_data(forecast_data) is called.
ValidateForecastData(forecast_data) ==
    /\ api' = [op |-> "validate_forecast_data", arg |-> forecast_data,
               result |-> validate_forecast_data(forecast_data)]
    /\ UNCHANGED <<env, weather_client, call, cache, now, handler>>

\* A dict with key k absent, or bound to one of values.
Opt(k, values) == {<<>>} \cup {k :> v : v \in values}

\* The values of 'current' in the payloads: objects with and without temp_c,
\* humidity and condition, of the right type and of another, and non-objects.
CurrentValues ==
    {Obj(t @@ h @@ c) :
        t \in Opt("temp_c", {Num(28), Str("hot"), None}),
        h \in Opt("humidity", {Num(65)}),
        c \in Opt("condition", {Obj(<<>>), Obj([text |-> Str("Sunny")]),
                                Obj([text |-> Num(1000)]), Str("Sunny"), None})}
    \cup {Str("n/a"), List(<<>>), None}

\* The values of 'location' in the payloads.
LocationValues ==
    {Obj(<<>>),
     Obj([name |-> Str("Lagos"), country |-> Str("Nigeria"), region |-> Str("Lagos")]),
     Obj([name |-> Num(7)]),
     Str("Lagos"), None}

\* The payloads handed to process_current_weather: JSON objects, and two values
\* that are not objects.
RawPayloads ==
    {Obj(l @@ c) : l \in Opt("location", LocationValues),
                   c \in Opt("current", CurrentValues)}
    \cup {List(<<>>), None}

\* Location(name, 'Nigeria', 'Lagos').
NewLocation(name) ==
    [name |-> name, country |-> Str("Nigeria"), region |-> Str("Lagos"),
     local_time |-> Str("")]

\* CurrentWeather(...) as the tests build it, for a temperature and a condition.
NewCurrentWeather(temperature_c, condition) ==
    [temperature_c |-> temperature_c, temperature_f |-> Num(82), condition |-> condition,
     icon |-> Str(""), humidity |-> Num(65), wind_kph |-> Num(15), wind_dir |-> Str("SW"),
     feels_like_c |-> Num(30), uv |-> Num(7), visibility_km |-> Num(10),
     last_updated |-> Str("")]

\* ForecastDay(...) for a date.
NewForecastDay(date) ==
    [date |-> date, max_temp_c |-> Num(30), min_temp_c |-> Num(25), max_temp_f |-> Num(86),
     min_temp_f |-> Num(77), condition |-> Str("Sunny"), icon |-> Str(""),
     chance_of_rain |-> Num(10), avg_humidity |-> Num(60)]

LocationObjects == {NewLocation(n) : n \in {Str("Lagos"), Str(""), None}} \cup {None}

\* The records handed to validate_weather_data.
WeatherDatas ==
    {[location |-> l, current |-> c, last_updated |-> Str("")] :
        l \in LocationObjects,
        c \in {NewCurrentWeather(t, d) : t \in {Num(28), Num(0), None},
                                         d \in {Str("Sunny"), Str("")}} \cup {None}}

\* The records handed to validate_forecast_data.
WeatherForecasts ==
    {[location |-> l, forecast |-> f] :
        l \in LocationObjects,
        f \in {None} \cup
              {List(days) : days \in
                 {<<>>,
                  <<NewForecastDay(Str("2024-01-15"))>>,
                  <<NewForecastDay(Str(""))>>,
                  <<NewForecastDay(Str("2024-01-15")), NewForecastDay(Str("2024-01-16"))>>,
                  <<NewForecastDay(Str("2024-01-15")), NewForecastDay(Str(""))>>,
                  <<NewForecastDay(Str("2024-01-15")), None>>}}}

\* One call of the processor on a payload or a record.
NextModels ==
    /\ api.op = "none"
    /\ \/ \E raw_api_data \in RawPayloads : ProcessCurrentWeather(raw_api_data)
       \/ \E weather_data \in WeatherDatas : ValidateWeatherData(weather_data)
       \/ \E forecast_data \in WeatherForecasts : ValidateForecastData(forecast_data)

SpecModels == InitCache /\ [][NextModels]_vars

-----------------------------------------------------------------------------
(* The mapper *)

\* Attribute of the record, key of the payload, default, type.
LocationFields ==
    {<<"name", "name", Str("Unknown"), "str">>, <<"country", "country", Str(""), "str">>,
     <<"region", "region", Str(""), "str">>, <<"local_time", "localtime", Str(""), "str">>}

CurrentFields ==
    {<<"temperature_c", "temp_c", Num(0), "num">>, <<"temperature_f", "temp_f", Num(0), "num">>,
     <<"humidity", "humidity", Num(0), "num">>, <<"wind_kph", "wind_kph", Num(0), "num">>,
     <<"wind_dir", "wind_dir", Str(""), "str">>, <<"feels_like_c", "feelslike_c", Num(0), "num">>,
     <<"uv", "uv", Num(0), "num">>, <<"visibility_km", "vis_km", Num(0), "num">>,
     <<"last_updated", "last_updated", Str(""), "str">>}

ConditionFields ==
    {<<"condition", "text", Str("Unknown"), "str">>, <<"icon", "icon", Str(""), "str">>}

\* The value under key of the payload, an empty object when the key is absent.
Nested(d, key) == IF key \in DOMAIN d.v THEN d.v[key] ELSE Obj(<<>>)

\* The same, an empty object too when the value is not an object.
NestedObject(d, key) ==
    IF key \in DOMAIN d.v /\ d.v[key].t = "obj" THEN d.v[key] ELSE Obj(<<>>)

\* Every attribute of rec listed in fields holds the value of its key in d when
\* the key is there, and its default otherwise.
DefaultsOnAbsence(rec, d, fields) ==
    \A f \in fields :
       rec[f[1]] = IF f[2] \in DOMAIN d.v THEN d.v[f[2]] ELSE f[3]

\* Every attribute of rec listed in fields holds the value of its key in d when
\* the key is there with a value of the field's type, and its default otherwise.
DefaultsOnWrongType(rec, d, fields) ==
    \A f \in fields :
       rec[f[1]] = IF f[2] \in DOMAIN d.v /\ d.v[f[2]].t = f[4] THEN d.v[f[2]] ELSE f[3]

\* process_current_weather was called on a JSON object.
MappedObject == api.op = "process_current_weather" /\ api.raw.t = "obj"

\* C13 as the specification words it: on every JSON object the mapper returns
\* a record, each field missing or of the wrong type, a nested value that is
\* no object included, holding its default.
C13_TotalWithDefaults ==
    MappedObject =>
       /\ api.outcome.kind = "return"
       /\ DefaultsOnWrongType(api.outcome.data.location,
                              NestedObject(api.raw, "location"), LocationFields)
       /\ DefaultsOnWrongType(api.outcome.data.current,
                              NestedObject(api.raw, "current"), CurrentFields)
       /\ DefaultsOnWrongType(api.outcome.data.current,
                              NestedObject(NestedObject(api.raw, "current"), "condition"),
                              ConditionFields)

\* location, current and condition are objects wherever the payload has them.
NestedAreObjects(raw) ==
    /\ Nested(raw, "location").t = "obj"
    /\ Nested(raw, "current").t = "obj"
    /\ Nested(Nested(raw, "current"), "condition").t = "obj"

\* C13: on a JSON object whose location, current and condition are objects
\* wherever present, the mapper returns a record in which every field whose
\* key is missing holds its default and every other field holds the value of
\* the payload as it is, of whatever type; on a JSON object where one of the
\* three is present and no object it raises ValueError.
C13_DefaultsOnAbsence ==
    MappedObject =>
       IF NestedAreObjects(api.raw)
       THEN /\ api.outcome.kind = "return"
            /\ DefaultsOnAbsence(api.outcome.data.location,
                                 Nested(api.raw, "location"), LocationFields)
            /\ DefaultsOnAbsence(api.outcome.data.current,
                                 Nested(api.raw, "current"), CurrentFields)
            /\ DefaultsOnAbsence(api.outcome.data.current,
                                 Nested(Nested(api.raw, "current"), "condition"),
                                 ConditionFields)
       ELSE /\ api.outcome.kind = "raise"
            /\ api.outcome.exc = "ValueError"

\* A payload with no location and a current without temp_c and condition was
\* mapped to a record of defaults.
C13_Witness ==
    /\ MappedObject
    /\ "location" \notin DOMAIN api.raw.v
    /\ "current" \in DOMAIN api.raw.v
    /\ api.raw.v["current"].t = "obj"
    /\ DOMAIN api.raw.v["current"].v = {"humidity"}
    /\ api.outcome.kind = "return"
    /\ api.outcome.data.location.name = Str("Unknown")
    /\ api.outcome.data.current.temperature_c = Num(0)
    /\ api.outcome.data.current.condition = Str("Unknown")
    /\ api.outcome.data.current.humidity = Num(65)

-----------------------------------------------------------------------------
(* The validators *)

\* The record has a location with a non-empty name.
HasName(rec) == HasAttr(rec.location, "name") /\ Truthy(rec.location.name)

\* The location name is non-empty, the temperature is there and the condition
\* text is non-empty.
CompleteWeather(weather_data) ==
    /\ HasName(weather_data)
    /\ HasAttr(weather_data.current, "temperature_c")
    /\ weather_data.current.temperature_c # None
    /\ Truthy(weather_data.current.condition)

\* The location name is non-empty, there is a day and every day has a
\* non-empty date.
CompleteForecast(forecast_data) ==
    /\ HasName(forecast_data)
    /\ forecast_data.forecast.t = "list"
    /\ Len(forecast_data.forecast.v) > 0
    /\ \A i \in 1..Len(forecast_data.forecast.v) :
          /\ HasAttr(forecast_data.forecast.v[i], "date")
          /\ Truthy(forecast_data.forecast.v[i].date)

\* C14: validate_weather_data returns the boolean True on a record with a
\* non-empty location name, a temperature and a non-empty condition text and
\* the boolean False on every other; validate_forecast_data returns True on a
\* record with a non-empty location name, a day and a non-empty date in every
\* day and False on every other; neither returns a value that is no boolean.
C14_ReturnsBoolean ==
    /\ api.op = "validate_weather_data" =>
          /\ api.result.t = "bool"
          /\ api.result.v = CompleteWeather(api.arg)
    /\ api.op = "validate_forecast_data" =>
          /\ api.result.t = "bool"
          /\ api.result.v = CompleteForecast(api.arg)

-----------------------------------------------------------------------------
(* One call of a client method, step by step *)

\* The timeout session.get applies to a request: its timeout argument, and
\* None, wait without limit, when the call passes none.  The attribute
\* session.timeout set by __init__ is not an argument of the call.
RequestTimeout(request) ==
    IF "timeout" \in request.kwargs THEN Num(SessionTimeout) ELSE None

\* get_current_weather(city) runs up to its call of self.session.get, line 85.
\* silent: the provider never responds to the request.
StartCurrentWeather(city, silent) ==
    /\ weather_client # None
    /\ call.method = "none"
    /\ call' = [method |-> "get_current_weather", city |-> city, pc |-> "waiting",
                sent |-> <<CurrentRequest(weather_client, city)>>, silent |-> silent]
    /\ UNCHANGED <<env, weather_client, cache, now, handler, api>>

\* get_forecast(city, days) runs up to its call of self.session.get, line 142.
StartForecast(city, days, silent) ==
    /\ weather_client # None
    /\ call.method = "none"
    /\ call' = [method |-> "get_forecast", city |-> city, days |-> days, pc |-> "waiting",
                sent |-> <<ForecastRequest(weather_client, city, days)>>, silent |-> silent]
    /\ UNCHANGED <<env, weather_client, cache, now, handler, api>>

\* What session.get can end in for the request the call waits on: anything
\* when the provider responds; when it never does, Timeout if the request has
\* a timeout, and nothing at all if it has none.
CanEnd(c, net) ==
    IF c.silent
    THEN /\ RequestTimeout(c.sent[Len(c.sent)]).t = "num"
         /\ net.kind = "raise"
         /\ net.exc = "Timeout"
    ELSE net \in Transports

\* The call as it is once session.get has ended in net and the method has run
\* to its return or raise.
Finished(c, net) ==
    LET r == IF c.method = "get_current_weather"
             THEN WeatherClient_get_current_weather(weather_client, c.city, net)
             ELSE WeatherClient_get_forecast(weather_client, c.city, c.days, net)
    IN  [method |-> c.method, city |-> c.city, pc |-> "done", sent |-> c.sent,
         silent |-> c.silent, net |-> net, outcome |-> r.outcome]

\* SessionGetEnds sending the request once more after a NetworkError.
SessionGetEnds_Retry(net) ==
    /\ call.method # "none"
    /\ call.pc = "waiting"
    /\ CanEnd(call, net)
    /\ LET f == Finished(call, net) IN
       call' = IF /\ f.outcome.kind = "raise"
                  /\ f.outcome.exc = "NetworkError"
                  /\ Len(call.sent) < 2
               THEN [call EXCEPT !.sent = Append(@, @[1])]
               ELSE f
    /\ UNCHANGED <<env, weather_client, cache, now, handler, api>>

\* session.get ends and the method runs to its end, lines 87-109 and 144-166:
\* there is no loop around the request.
SessionGetEnds(net) ==
    /\ call.method # "none"
    /\ call.pc = "waiting"
    /\ CanEnd(call, net)
    /\ call' = Finished(call, net)
    /\ UNCHANGED <<env, weather_client, cache, now, handler, api>>

\* One call of a method of the client, to a provider that responds or not.
NextCall ==
    \/ /\ call.method = "none"
       /\ \E city \in CityInputs, silent \in BOOLEAN : StartCurrentWeather(city, silent)
    \/ /\ call.method = "none"
       /\ \E city \in CityInputs, days \in Days, silent \in BOOLEAN :
             StartForecast(city, days, silent)
    \/ \E net \in Transports : SessionGetEnds(net)

SpecCall == Init /\ [][NextCall]_vars

\* C15: every request the two methods issue has the timeout of 10 seconds.
C15_IssuedWithTimeout ==
    call.method # "none" =>
       \A i \in 1..Len(call.sent) :
          /\ RequestTimeout(call.sent[i]).t = "num"
          /\ RequestTimeout(call.sent[i]).v = SessionTimeout

\* C16: a call of either method issues one request and no more; when the call
\* has raised, for a status code or for a failure of the transport, that one
\* request is all it sent.
C16_NoRetry ==
    call.method # "none" =>
       /\ Len(call.sent) <= 1
       /\ (call.pc = "done" /\ call.outcome.kind = "raise") =>
             call.sent = <<IF call.method = "get_current_weather"
                           THEN CurrentRequest(weather_client, call.city)
                           ELSE ForecastRequest(weather_client, call.city,
                                                call.sent[1].params.days)>>

\* A call ended in NetworkError after a Timeout of its one request.
C16_Witness ==
    /\ call.method # "none"
    /\ call.pc = "done"
    /\ call.net.kind = "raise"
    /\ call.net.exc = "Timeout"
    /\ call.outcome.kind = "raise"
    /\ call.outcome.exc = "NetworkError"
    /\ Len(call.sent) = 1

-----------------------------------------------------------------------------
(* The handlers and the cache *)

\* The key of a kind of request and a city.
KeyOf(endpoint, city) ==
    <<IF endpoint = "current" THEN "current_" ELSE "forecast_", Lower(city)>>

\* A handler answers before it reaches its call of the client.
AnswersAtLookup ==
    /\ api'.op \in {"current", "forecast"}
    /\ handler' = handler

\* C17: a request is answered from the cache, with the data of the item of its
\* key, exactly when that item is within the TTL, and then no handler goes to
\* the client and the dict is left alone; a request for a city whose key has no
\* item within the TTL, when there is a client, goes on to one call of the
\* client, after which it answers; when the call succeeds the result is in the
\* dict under the key of the request, with the time of the write, when the
\* response is given.
C17_ClientOnlyOnMiss ==
    [][/\ Hits =>
             /\ AnswersAtLookup
             /\ cache' = cache
             /\ \E e \in cache :
                   /\ e.key = KeyOf(api'.op, Strip(ArgCity(api'.args)))
                   /\ Fresh(e)
                   /\ e.data = api'.response.body.data
       /\ (AnswersAtLookup /\ ~Hits) =>
             /\ api'.response.status \in {400, 500}
             /\ Strip(ArgCity(api'.args)) = <<>> \/ weather_client = None
       /\ \A r \in Threads :
             /\ Misses(r) =>
                   /\ handler'[r].cache_key = KeyOf(handler'[r].endpoint, handler'[r].city)
                   /\ handler'[r].city = Strip(ArgCity(handler'[r].args))
                   /\ ~\E e \in cache : e.key = handler'[r].cache_key /\ Fresh(e)
             /\ (handler[r].pc = "fetch" /\ handler'[r] # handler[r]) =>
                   /\ handler'[r] = Idle
                   /\ api'.op = handler[r].endpoint
                   /\ api'.args = handler[r].args
             /\ Fetches(r) =>
                   /\ ~api'.response.body.cached
                   /\ Written(r) \in cache'
                   /\ \A e \in cache' : e.key = handler[r].cache_key => e = Written(r)
      ]_vars

\* A forecast request answered from the cache right after a request with the
\* same arguments fetched the result and stored it, with every handler at rest.
C17_Witness ==
    /\ api.op = "forecast"
    /\ api.response.status = 200
    /\ api.response.body.cached
    /\ api.after = api.args
    /\ \A r \in Threads : handler[r].pc = "idle"
    /\ \E e \in cache :
          /\ e.key = KeyOf("forecast", Strip(ArgCity(api.args)))
          /\ e.data = api.response.body.data
          /\ Fresh(e)

\* A handler answers with an error.
Fails == api'.op \in {"current", "forecast"} /\ api'.response.status # 200

\* C18: the dict changes only when a handler answers with the result its call
\* of the client returned, and then by the item of that result alone; a
\* request answered with an error, 400 for an empty city, 404, 401, 503 or
\* 500, leaves the dict as it was.
C18_FailuresNotCached ==
    [][/\ Fails => cache' = cache
       /\ cache' # cache =>
             \E r \in Threads :
                /\ Fetches(r)
                /\ OwnResult(handler[r].endpoint, handler[r].city, Written(r).data)
                /\ cache' = {e \in cache : e.key # handler[r].cache_key} \cup {Written(r)}
      ]_vars

\* A request for a city was answered 404 while the dict still holds, untouched,
\* the expired item an earlier request stored under the same key.
C18_Witness ==
    /\ api.op = "current"
    /\ api.response.status = 404
    /\ \E e \in cache :
          /\ e.key = KeyOf("current", Strip(ArgCity(api.args)))
          /\ ~Fresh(e)

=============================================================================
